---- MODULE Spec2Model ----
(***************************************************************************)
(* Run orchestration of slack-cline: the run state machine kept in the     *)
(* runs table (models/run.py), RunOrchestratorService with its in-memory   *)
(* _run_metadata and _active_streams maps (modules/orchestrator/           *)
(* service.py), the worker client it drives (modules/execution_engine/     *)
(* cli_client.py) and the shutdown hook (main.py).                         *)
(*                                                                         *)
(* Every coroutine is a process: a request handler or a consumer task      *)
(* runs from one suspension point (await) to the next in one step, and     *)
(* the steps of different coroutines interleave freely, as they do on the  *)
(* asyncio event loop.  A handler works on the ORM object of its own       *)
(* session: what it read at its last load is kept in the handler's local   *)
(* variables, and a commit writes the columns the handler assigned.        *)
(***************************************************************************)
EXTENDS Naturals, Sequences, FiniteSets

\* Number of StartRun requests (one run id each) the model issues.
MaxRuns == 2
\* Number of CancelRun requests issued per run id.
MaxCancels == 1

RunIds == 1..MaxRuns

\* RunStatus values the orchestrator uses (models/run.py:19-27), and NoRow for a
\* run id that has no row in the runs table.
NoRow == "NoRow"
QUEUED == "QUEUED"
RUNNING == "RUNNING"
SUCCEEDED == "SUCCEEDED"
FAILED == "FAILED"
CANCELLED == "CANCELLED"

\* Slack channels of the incoming commands: one with a row in the projects
\* table at startup, one without.
Channels == {"configured", "unconfigured"}

VARIABLES
    db,              \* runs table: run id -> row
    projects,        \* projects table: channels that have a project row
    startPc,         \* start_run handler of each run id
    startRet,        \* what start_run returned or raised
    command,         \* channel_id of the StartRunCommand start_run is serving
    worker,          \* what the worker CLI does with the run's start
    clientCalls,     \* number of cli_client.start_run calls made for the run
    run_metadata,    \* RunOrchestratorService._run_metadata, in insertion order
    active_streams,  \* keys of RunOrchestratorService._active_streams
    taskPc,          \* the asyncio task of _handle_event_stream
    taskCancel,      \* task.cancel() was called and is not yet delivered
    taskEvent,       \* the event the task is processing
    taskRun,         \* status of the run object the task loaded
    stream,          \* stream_events: "open", or "ended" once its last event is out
    cancelPc,        \* cancel_run handler of each run id
    cancelRun,       \* the run object cancel_run loaded: has it worker columns
    cancelOk,        \* success, the local of cancel_run
    cancelRet,       \* the last value cancel_run returned
    cancelLine,      \* the line of the return statement it left by
    cancels,         \* number of CancelRun requests issued
    pauseAsked,      \* number of `cline task pause` commands issued
    instance,        \* the worker instance: "none", "alive" or "killed"
    cleanups,        \* number of cleanup_instance calls that ran to their end
    notified,        \* number of final-status messages posted to Slack
    shutdownPc,      \* the shutdown hook
    shutdownTodo,    \* active_runs still to visit
    shutdownSeen,    \* runs the hook marked CANCELLED in its session
    shutdownRunning, \* runs with metadata that were RUNNING when the hook began
    startupPc,       \* the startup part of lifespan: "boot", "loaded", "serving"
    staleRuns,       \* stale_runs, the local of cleanup_stale_runs
    lastCmd,         \* the last command sent to the worker instance of a run
    autonomous,      \* a command with an autonomy flag has reached the instance
    approved,        \* approve_plan was called for the instance
    genPc,           \* where one stream_events generator stands
    proc,            \* its `cline task view --follow` process; returncode is
                     \* read once state is "exited"
    timeout_count,   \* its local timeout_count
    line_count,      \* its local line_count
    yielded,         \* the event types it has yielded, in order
    plan_summary,    \* the output it fetched at its last idle timeout
    applied,         \* the event types its consumer has applied, in order
    reply,           \* the answer to the last respond or approve request for a run
    name,            \* a project name, as a sequence of characters
    slug,            \* what _slugify returned for it; <<>> before the call
    disk,            \* what is at each path under workspace_base
    wsPc,            \* where each get_workspace call stands
    wsDir,           \* its workspace_path
    wsLog,           \* the last thing it logged about its workspace
    active,          \* active_project_names of cleanup_orphaned_workspaces
    cleaned,         \* <<cleaned_count>> once that call has returned
    cli,             \* one ClineCliClient.start_run call and its worker
    lines_read       \* the lines readline has returned to stream_events

vars == <<db, projects, startPc, startRet, command, worker, clientCalls,
          run_metadata, active_streams, taskPc, taskCancel, taskEvent, taskRun,
          stream, cancelPc, cancelRun, cancelOk, cancelRet, cancelLine, cancels,
          pauseAsked, instance, cleanups, notified, shutdownPc, shutdownTodo,
          shutdownSeen, shutdownRunning, startupPc, staleRuns, lastCmd,
          autonomous, approved, genPc, proc, timeout_count, line_count,
          yielded, plan_summary, applied, reply, name, slug, disk, wsPc,
          wsDir, wsLog, active, cleaned, cli, lines_read>>

startVars == <<startPc, startRet, command, worker, clientCalls, projects>>
taskVars == <<taskPc, taskCancel, taskEvent, taskRun, stream>>
cancelVars == <<cancelPc, cancelRun, cancelOk, cancelRet, cancelLine, cancels,
                pauseAsked>>
shutdownVars == <<shutdownPc, shutdownTodo, shutdownSeen, shutdownRunning>>
startupVars == <<startupPc, staleRuns>>
clientVars == <<lastCmd, autonomous, approved>>
generatorVars == <<genPc, proc, timeout_count, line_count, yielded, plan_summary>>

\* What the agent side works on (modules/agent).
workspaceVars == <<disk, wsPc, wsDir, wsLog, active, cleaned>>
agentVars == <<name, slug, workspaceVars, cli, lines_read>>

\* What the coroutines of the orchestrator and the shutdown hook leave alone.
apartVars == <<startupVars, clientVars, generatorVars, applied, reply, agentVars>>

\* What those coroutines work on.
orchestratorVars ==
    <<db, startVars, run_metadata, active_streams, taskVars, cancelVars,
      instance, cleanups, notified, shutdownVars>>

Range(s) == {s[i] : i \in 1..Len(s)}

----------------------------------------------------------------------------
(* models/run.py *)

\* A row of the runs table.  worker stands for the three columns start_run
\* sets together: cline_run_id, cline_instance_address and workspace_path.
NoRun ==
    [status |-> NoRow, summary |-> "", started_at |-> FALSE,
     finished_at |-> FALSE, worker |-> FALSE, slack_thread_ts |-> FALSE]

NewRun == [NoRun EXCEPT !.status = QUEUED]

\* is_active if it took a failed run for an active one.
is_active_or_failed(status) == status \in {QUEUED, RUNNING, FAILED}

is_active(status) == status \in {QUEUED, RUNNING}

is_completed(status) == status \in {SUCCEEDED, FAILED, CANCELLED}

mark_started(run) == [run EXCEPT !.status = RUNNING, !.started_at = TRUE]

\* mark_completed if it dropped the summary.
mark_completed_without_summary(run, status, summary) ==
    [run EXCEPT !.status = status, !.finished_at = TRUE]

mark_completed(run, status, summary) ==
    [run EXCEPT !.status = status,
                !.finished_at = TRUE,
                !.summary = IF summary # "" THEN summary ELSE @]

----------------------------------------------------------------------------
(* The call of the worker client in start_run *)

\* Parameters of ClineCliClient.start_run that have no default.
StartRunRequired ==
    {"workspace_path", "repo_url", "ref_type", "ref", "prompt", "provider",
     "api_key", "model_id"}

\* Keyword arguments RunOrchestratorService.start_run passes.
StartRunArguments ==
    {"repo_url", "ref_type", "ref", "prompt", "provider", "api_key",
     "model_id", "base_url", "metadata"}

\* Python binds a call only if every parameter without a default is given.
StartRunBinds == StartRunRequired \subseteq StartRunArguments

\* What the body of ClineCliClient.start_run can come to: a result, or the
\* RuntimeError it raises when a step fails.
WorkerOutcomes == {"ok", "auth_failed", "spawn_failed", "task_failed"}

\* The call as written: a TypeError before the body runs if it does not bind.
cli_start_run(outcome) == IF StartRunBinds THEN outcome ELSE "TypeError"

\* The instance `cline instance new` left behind, by outcome: the task is
\* submitted to an instance that is already up.
SpawnedInstance(outcome) ==
    IF outcome \in {"ok", "task_failed"} THEN "alive" ELSE "none"

None == "None"

\* _resolve_project: the project of the channel, created with defaults if the
\* projects table has no row for it.
resolve_project(projs, channel) ==
    [project |-> channel, projects |-> projs \cup {channel}]

----------------------------------------------------------------------------
(* Slack updates (service.py:383-454) *)

\* Number of final-status messages _post_event_update posts for an event.
post_event_update(run, event) ==
    IF ~run.slack_thread_ts THEN 0
    ELSE IF event \in {"complete", "error", "failed"} THEN 1
    ELSE 0

\* Number of messages _post_cancellation_update posts.
post_cancellation_update(run) == IF ~run.slack_thread_ts THEN 0 ELSE 1

\* handle_cancel_run_action, the caller of cancel_run (slack_gateway/
\* handlers.py:742-758): on True it replaces the Slack message by "Run
\* cancelled by user", on False it answers "Failed to cancel run".
cancel_reply(success) == IF success THEN 1 ELSE 0

----------------------------------------------------------------------------
\* No command has been sent to any instance.
InitClient ==
    /\ lastCmd = [r \in RunIds |-> <<>>]
    /\ autonomous = [r \in RunIds |-> FALSE]
    /\ approved = [r \in RunIds |-> FALSE]

\* stream_events has not been called.
NoOutput == [len |-> 0, has |-> {}]

InitGenerator ==
    /\ genPc = "start"
    /\ proc = [state |-> "none", returncode |-> 0]
    /\ timeout_count = 0
    /\ line_count = 0
    /\ yielded = <<>>
    /\ plan_summary = NoOutput
    /\ applied = <<>>
    /\ reply = [r \in RunIds |-> "none"]

\* Number of get_workspace calls.
MaxCallers == 2

Callers == 1..MaxCallers

\* ClineCliClient.start_run has not been called.
NoCall ==
    [pc |-> "idle", base_url |-> "", prompt |-> "", sent |-> <<>>,
     auth |-> "none",
     proc |-> "none", address |-> "none", created |-> <<>>, result |-> <<>>]

\* No get_workspace call is running and nothing has been swept.
InitCallers ==
    /\ cli = NoCall
    /\ lines_read = <<>>
    /\ wsPc = [c \in Callers |-> "idle"]
    /\ wsDir = [c \in Callers |-> <<>>]
    /\ wsLog = [c \in Callers |-> "none"]
    /\ active = {}
    /\ cleaned = <<>>

InitAgent ==
    /\ name = <<>>
    /\ slug = <<>>
    /\ disk = <<>>
    /\ InitCallers

\* The services before the first request.
InitService ==
    /\ db = [r \in RunIds |-> NoRun]
    /\ projects = {"configured"}
    /\ startPc = [r \in RunIds |-> "idle"]
    /\ startRet = [r \in RunIds |-> "none"]
    /\ command = [r \in RunIds |-> "none"]
    /\ worker = [r \in RunIds |-> "none"]
    /\ clientCalls = [r \in RunIds |-> 0]
    /\ run_metadata = <<>>
    /\ active_streams = {}
    /\ taskPc = [r \in RunIds |-> "none"]
    /\ taskCancel = [r \in RunIds |-> FALSE]
    /\ taskEvent = [r \in RunIds |-> "none"]
    /\ taskRun = [r \in RunIds |-> NoRow]
    /\ stream = [r \in RunIds |-> "open"]
    /\ cancelPc = [r \in RunIds |-> "idle"]
    /\ cancelRun = [r \in RunIds |-> FALSE]
    /\ cancelOk = [r \in RunIds |-> FALSE]
    /\ cancelRet = [r \in RunIds |-> "none"]
    /\ cancelLine = [r \in RunIds |-> 0]
    /\ cancels = [r \in RunIds |-> 0]
    /\ pauseAsked = [r \in RunIds |-> 0]
    /\ instance = [r \in RunIds |-> "none"]
    /\ cleanups = [r \in RunIds |-> 0]
    /\ notified = [r \in RunIds |-> 0]
    /\ shutdownPc = "idle"
    /\ shutdownTodo = <<>>
    /\ shutdownSeen = {}
    /\ shutdownRunning = {}
    /\ startupPc = "serving"
    /\ staleRuns = {}
    /\ InitClient
    /\ InitGenerator

Init == InitService /\ InitAgent

\* The server takes requests from the yield of lifespan until its shutdown
\* part begins, and the hook starts once the requests in flight have returned.
Serving == startupPc = "serving" /\ shutdownPc = "idle"

RequestsInFlight ==
    \E r \in RunIds : startPc[r] \notin {"idle", "done"} \/ cancelPc[r] # "idle"

\* The event loop runs until the shutdown hook has returned.
LoopRuns == shutdownPc # "done"

----------------------------------------------------------------------------
(* RunOrchestratorService.start_run (service.py:42-144) *)

\* Lines 64-85: resolve the project, insert the QUEUED run, commit.
StartRun_Create(r, channel) ==
    /\ Serving
    /\ startPc[r] = "idle"
    /\ \A q \in RunIds : q < r => startPc[q] # "idle"
    /\ command' = [command EXCEPT ![r] = channel]
    /\ LET res == resolve_project(projects, channel) IN
         /\ projects' = res.projects
         /\ IF res.project = None
            THEN /\ startRet' = [startRet EXCEPT ![r] = "ValueError"]
                 /\ startPc' = [startPc EXCEPT ![r] = "done"]
                 /\ db' = db
            ELSE /\ db' = [db EXCEPT ![r] = NewRun]
                 /\ startPc' = [startPc EXCEPT ![r] = "created"]
                 /\ startRet' = startRet
    /\ UNCHANGED <<worker, clientCalls, run_metadata, active_streams, taskVars,
                   cancelVars, instance, cleanups, notified, shutdownVars>>
    /\ UNCHANGED apartVars

\* Lines 89-144: the worker CLI does `w` and the call of the worker client
\* came to `outcome`.  On a result the run is
\* marked started and committed, its metadata stored, the consumer task
\* created (_start_event_stream) and the first Slack message posted; on an
\* exception the run is marked FAILED, committed, and RuntimeError raised.
StartRun_Return(r, w, outcome) ==
    /\ LoopRuns
    /\ startPc[r] = "created"
    /\ worker' = [worker EXCEPT ![r] = w]
    /\ command' = [command EXCEPT ![r] = "none"]
    /\ clientCalls' = [clientCalls EXCEPT ![r] = @ + 1]
    /\ startPc' = [startPc EXCEPT ![r] = "done"]
    /\ instance' = [instance EXCEPT ![r] = SpawnedInstance(outcome)]
    /\ IF outcome = "ok"
       THEN /\ db' = [db EXCEPT ![r] = mark_started([@ EXCEPT !.worker = TRUE])]
            /\ run_metadata' = Append(run_metadata, r)
            /\ active_streams' = active_streams \cup {r}
            /\ taskPc' = [taskPc EXCEPT ![r] = "ready"]
            /\ startRet' = [startRet EXCEPT ![r] = "run"]
       ELSE /\ db' = [db EXCEPT ![r] = mark_completed(@, FAILED, "Failed to start")]
            /\ startRet' = [startRet EXCEPT ![r] = "RuntimeError"]
            /\ UNCHANGED <<run_metadata, active_streams, taskPc>>
    /\ UNCHANGED <<projects, taskCancel, taskEvent, taskRun, stream,
                   cancelVars, cleanups, notified, shutdownVars>>
    /\ UNCHANGED apartVars

\* The worker client takes the call and its body decides the outcome.
StartRun_Worker(r) == \E w \in WorkerOutcomes : StartRun_Return(r, w, w)

\* The call exactly as start_run writes it.
StartRun_Wired(r) ==
    \E w \in WorkerOutcomes : StartRun_Return(r, w, cli_start_run(w))

----------------------------------------------------------------------------
(* RunOrchestratorService._stop_event_stream (service.py:253-259) *)

\* task.cancel() has an effect on a task that has not finished.
TaskLive(pc) == pc \notin {"none", "finished", "cancelled"}

\* _stop_event_stream if it only dropped the task and did not cancel it.
StopTaskForget(r) == taskCancel

StopTaskCancel(r) ==
    IF r \in active_streams /\ TaskLive(taskPc[r])
    THEN [taskCancel EXCEPT ![r] = TRUE]
    ELSE taskCancel

StopStreams(r) == active_streams \ {r}

----------------------------------------------------------------------------
(* RunOrchestratorService.cancel_run (service.py:146-200) *)

\* Lines 157-169: load the run; return False if there is none or it is not
\* active.  Otherwise go on to the worker (line 179) if the run has one.
CancelRun_Load(r) ==
    /\ Serving
    /\ cancelPc[r] = "idle"
    /\ cancels[r] < MaxCancels
    /\ cancels' = [cancels EXCEPT ![r] = @ + 1]
    /\ IF db[r].status = NoRow \/ ~is_active(db[r].status)
       THEN /\ cancelRet' = [cancelRet EXCEPT ![r] = "False"]
            /\ cancelLine' = [cancelLine EXCEPT ![r] =
                                 IF db[r].status = NoRow THEN 165 ELSE 169]
            /\ UNCHANGED <<cancelPc, cancelRun, cancelOk>>
       ELSE /\ cancelLine' = [cancelLine EXCEPT ![r] = 0]
            /\ cancelRun' = [cancelRun EXCEPT ![r] = db[r].worker]
            /\ cancelOk' = [cancelOk EXCEPT ![r] = FALSE]
            /\ cancelPc' = [cancelPc EXCEPT ![r] =
                               IF db[r].worker THEN "pausing" ELSE "decided"]
            /\ cancelRet' = [cancelRet EXCEPT ![r] = "none"]
    /\ UNCHANGED <<db, startVars, run_metadata, active_streams, taskVars,
                   pauseAsked, instance, cleanups, notified, shutdownVars>>
    /\ UNCHANGED apartVars

\* Lines 179-185: cli_client.cancel_run ran `cline task pause`; success is
\* whether the command exited 0.
CancelRun_Pause(r, success) ==
    /\ LoopRuns
    /\ cancelPc[r] = "pausing"
    /\ pauseAsked' = [pauseAsked EXCEPT ![r] = @ + 1]
    /\ cancelOk' = [cancelOk EXCEPT ![r] = success]
    /\ cancelPc' = [cancelPc EXCEPT ![r] = "decided"]
    /\ UNCHANGED <<db, startVars, run_metadata, active_streams, taskVars,
                   cancelRun, cancelRet, cancelLine, cancels, instance, cleanups,
                   notified, shutdownVars>>
    /\ UNCHANGED apartVars

\* Line 187: the run is cancelled if the worker took the pause, or if the run
\* object has no cline_run_id.
ShouldCancel(success, hasWorker) == success \/ ~hasWorker

\* Lines 187-200: mark CANCELLED and commit, stop the stream, update Slack;
\* return success, which the Slack handler answers.
CancelRun_Finish(r) ==
    /\ LoopRuns
    /\ cancelPc[r] = "decided"
    /\ IF ShouldCancel(cancelOk[r], cancelRun[r])
       THEN /\ db' = [db EXCEPT ![r] = mark_completed(@, CANCELLED, "Cancelled")]
            /\ taskCancel' = StopTaskCancel(r)
            /\ active_streams' = StopStreams(r)
            /\ notified' = [notified EXCEPT ![r] =
                               @ + post_cancellation_update(db[r])
                                 + cancel_reply(cancelOk[r])]
       ELSE /\ notified' = [notified EXCEPT ![r] = @ + cancel_reply(cancelOk[r])]
            /\ UNCHANGED <<db, taskCancel, active_streams>>
    /\ cancelRet' = [cancelRet EXCEPT ![r] = IF cancelOk[r] THEN "True" ELSE "False"]
    /\ cancelLine' = [cancelLine EXCEPT ![r] = 200]
    /\ cancelPc' = [cancelPc EXCEPT ![r] = "idle"]
    /\ cancelRun' = [cancelRun EXCEPT ![r] = FALSE]
    /\ cancelOk' = [cancelOk EXCEPT ![r] = FALSE]
    /\ UNCHANGED <<startVars, run_metadata, taskPc, taskEvent, taskRun, stream,
                   cancels, pauseAsked, instance, cleanups, shutdownVars>>
    /\ UNCHANGED apartVars

----------------------------------------------------------------------------
(* The consumer task: RunOrchestratorService._handle_event_stream          *)
(* (service.py:261-301) around ClineCliClient.stream_events, and           *)
(* _process_run_event (service.py:303-357)                                 *)

\* Events of an output line (cli_client.py:198-242), and the events with
\* which stream_events ends (cli_client.py:260-335).
LineEvents == {"step"}

LastEvents == {"plan_complete", "complete", "error"}

\* Lines 331-337 if plan_complete ended the run as complete does.
EventStatus_plan_ends(event, loaded) ==
    CASE event \in {"complete", "plan_complete"} -> SUCCEEDED
      [] event \in {"error", "failed"} -> FAILED
      [] event = "cancelled" -> CANCELLED
      [] OTHER -> loaded

\* Lines 331-337: the status an event gives the loaded run object.
EventStatus(event, loaded) ==
    CASE event = "complete" -> SUCCEEDED
      [] event \in {"error", "failed"} -> FAILED
      [] event = "cancelled" -> CANCELLED
      [] OTHER -> loaded

\* Lines 267-272: the task starts and looks its metadata up.
Task_Start(r) ==
    /\ LoopRuns
    /\ taskPc[r] = "ready"
    /\ ~taskCancel[r]
    /\ taskPc' = [taskPc EXCEPT ![r] =
                     IF r \in Range(run_metadata) THEN "waiting" ELSE "finished"]
    /\ UNCHANGED <<db, startVars, run_metadata, active_streams, taskCancel,
                   taskEvent, taskRun, stream, cancelVars, instance, cleanups,
                   notified, shutdownVars>>
    /\ UNCHANGED apartVars

\* Line 275: stream_events yields an event: a line event, or its last one.
Stream_Event(r, event) ==
    /\ LoopRuns
    /\ taskPc[r] = "waiting"
    /\ ~taskCancel[r]
    /\ stream[r] = "open"
    /\ stream' = [stream EXCEPT ![r] = IF event \in LastEvents THEN "ended" ELSE @]
    /\ taskEvent' = [taskEvent EXCEPT ![r] = event]
    /\ taskPc' = [taskPc EXCEPT ![r] = "loading"]
    /\ UNCHANGED <<db, startVars, run_metadata, active_streams, taskCancel,
                   taskRun, cancelVars, instance, cleanups, notified,
                   shutdownVars>>
    /\ UNCHANGED apartVars

\* Line 275: stream_events is exhausted after its last event; the task returns.
Stream_End(r) ==
    /\ LoopRuns
    /\ taskPc[r] = "waiting"
    /\ ~taskCancel[r]
    /\ stream[r] = "ended"
    /\ taskPc' = [taskPc EXCEPT ![r] = "finished"]
    /\ UNCHANGED <<db, startVars, run_metadata, active_streams, taskCancel,
                   taskEvent, taskRun, stream, cancelVars, instance, cleanups,
                   notified, shutdownVars>>
    /\ UNCHANGED apartVars

\* Lines 284-288: stream_events raises (cli_client.py:337-339).
Stream_Raise(r) ==
    /\ LoopRuns
    /\ taskPc[r] = "waiting"
    /\ ~taskCancel[r]
    /\ stream[r] = "open"
    /\ taskPc' = [taskPc EXCEPT ![r] = "failing"]
    /\ UNCHANGED <<db, startVars, run_metadata, active_streams, taskCancel,
                   taskEvent, taskRun, stream, cancelVars, instance, cleanups,
                   notified, shutdownVars>>
    /\ UNCHANGED apartVars

\* Lines 320-337: load the run in a new session and mark the run object.
ProcessEvent_Load(r) ==
    /\ LoopRuns
    /\ taskPc[r] = "loading"
    /\ ~taskCancel[r]
    /\ IF db[r].status = NoRow
       THEN /\ taskPc' = [taskPc EXCEPT ![r] = "waiting"]
            /\ taskRun' = taskRun
       ELSE /\ taskRun' = [taskRun EXCEPT ![r] = EventStatus(taskEvent[r], db[r].status)]
            /\ taskPc' = [taskPc EXCEPT ![r] = "committing"]
    /\ UNCHANGED <<db, startVars, run_metadata, active_streams, taskCancel,
                   taskEvent, stream, cancelVars, instance, cleanups, notified,
                   shutdownVars>>
    /\ UNCHANGED apartVars

\* The message of an event that ends a run: stream_events gives "complete" and
\* "error" a non-empty one (cli_client.py:308-335).
EventMessage(event) == IF event = "complete" THEN "Task summary" ELSE "Task failed"

\* Lines 339-354: commit, update Slack and, if the run object is completed,
\* stop the event stream and start cleanup_instance, which runs up to the
\* first suspension of create_subprocess_exec: `cline instance kill` is
\* spawned (cli_client.py:559-565).
ProcessEvent_Apply(r) ==
    /\ LoopRuns
    /\ taskPc[r] = "committing"
    /\ ~taskCancel[r]
    /\ db' = [db EXCEPT ![r] =
                 IF EventStatus(taskEvent[r], NoRow) # NoRow
                 THEN mark_completed(@, taskRun[r], EventMessage(taskEvent[r]))
                 ELSE @]
    /\ notified' = [notified EXCEPT ![r] = @ + post_event_update(db[r], taskEvent[r])]
    /\ IF is_completed(taskRun[r])
       THEN /\ taskCancel' = StopTaskCancel(r)
            /\ active_streams' = StopStreams(r)
            /\ taskPc' = [taskPc EXCEPT ![r] =
                             IF r \in Range(run_metadata) THEN "cleanup" ELSE "waiting"]
       ELSE /\ taskPc' = [taskPc EXCEPT ![r] = "waiting"]
            /\ UNCHANGED <<taskCancel, active_streams>>
    /\ taskEvent' = [taskEvent EXCEPT ![r] = "none"]
    /\ taskRun' = [taskRun EXCEPT ![r] = NoRow]
    /\ UNCHANGED <<startVars, run_metadata, stream, cancelVars, instance,
                   cleanups, shutdownVars>>

ProcessEvent_Commit(r) == ProcessEvent_Apply(r) /\ UNCHANGED apartVars

Without(s, r) == SelectSeq(s, LAMBDA x : x # r)

\* cli_client.py:570-574: cleanup_instance removes the workspace it was given
\* after the kill command has ended, so the run's workspace is there as long
\* as no cleanup_instance call for the run has come to its end.
WorkspacePresent(r) == cleanups[r] = 0

\* cleanup_instance resumes (cli_client.py:557-577, service.py:350-354).  If
\* the task was cancelled meanwhile, CancelledError is raised at the
\* suspension: the transport is closed, which kills the `cline instance kill`
\* command unless it has exited already (`took`), and the error leaves
\* cleanup_instance and _process_run_event, whose handlers catch Exception
\* only.  Otherwise the command runs to its end and the metadata is deleted.
ProcessEvent_Cleanup(r, took) ==
    /\ LoopRuns
    /\ taskPc[r] = "cleanup"
    /\ IF taskCancel[r]
       THEN /\ instance' = [instance EXCEPT ![r] = IF took THEN "killed" ELSE @]
            /\ taskPc' = [taskPc EXCEPT ![r] = "cancelled"]
            /\ taskCancel' = [taskCancel EXCEPT ![r] = FALSE]
            /\ UNCHANGED <<cleanups, run_metadata>>
       ELSE /\ instance' = [instance EXCEPT ![r] = "killed"]
            /\ cleanups' = [cleanups EXCEPT ![r] = @ + 1]
            /\ run_metadata' = Without(run_metadata, r)
            /\ taskPc' = [taskPc EXCEPT ![r] = "waiting"]
            /\ taskCancel' = taskCancel
    /\ UNCHANGED <<db, startVars, active_streams, taskEvent, taskRun, stream,
                   cancelVars, notified, shutdownVars>>
    /\ UNCHANGED apartVars

\* Lines 282-283: a cancelled task gets CancelledError at the await it is
\* suspended in (the awaited read or commit is abandoned) and returns.
Task_Cancelled(r) ==
    /\ LoopRuns
    /\ taskCancel[r]
    /\ TaskLive(taskPc[r])
    /\ taskPc[r] # "cleanup"
    /\ taskPc' = [taskPc EXCEPT ![r] = "cancelled"]
    /\ taskCancel' = [taskCancel EXCEPT ![r] = FALSE]
    /\ taskEvent' = [taskEvent EXCEPT ![r] = "none"]
    /\ taskRun' = [taskRun EXCEPT ![r] = NoRow]
    /\ UNCHANGED <<db, startVars, run_metadata, active_streams, stream,
                   cancelVars, instance, cleanups, notified, shutdownVars>>
    /\ UNCHANGED apartVars

\* Lines 288-294: the handler of a stream error loads the run.
StreamError_Load(r) ==
    /\ LoopRuns
    /\ taskPc[r] = "failing"
    /\ ~taskCancel[r]
    /\ taskPc' = [taskPc EXCEPT ![r] =
                     IF db[r].status # NoRow /\ is_active(db[r].status)
                     THEN "fail_commit" ELSE "finished"]
    /\ UNCHANGED <<db, startVars, run_metadata, active_streams, taskCancel,
                   taskEvent, taskRun, stream, cancelVars, instance, cleanups,
                   notified, shutdownVars>>
    /\ UNCHANGED apartVars

\* Lines 295-299: mark the run FAILED and commit.
StreamError_Commit(r) ==
    /\ LoopRuns
    /\ taskPc[r] = "fail_commit"
    /\ ~taskCancel[r]
    /\ db' = [db EXCEPT ![r] = mark_completed(@, FAILED, "Event stream error")]
    /\ taskPc' = [taskPc EXCEPT ![r] = "finished"]
    /\ UNCHANGED <<startVars, run_metadata, active_streams, taskCancel,
                   taskEvent, taskRun, stream, cancelVars, instance, cleanups,
                   notified, shutdownVars>>
    /\ UNCHANGED apartVars

----------------------------------------------------------------------------
(* shutdown_cleanup (main.py:65-123) *)

\* Keys of a _run_metadata entry (service.py:115-119).
MetadataKeys == {"instance_address", "workspace_path", "task_id"}

\* main.py:85-86: the hook terminates the process it finds under "cli_process".
HasCliProcess == "cli_process" \in MetadataKeys

\* main.py:100-103: status and summary are set; completed_at is no column.
ShutdownCancel(run) ==
    [run EXCEPT !.status = CANCELLED, !.summary = "Server shutdown"]

\* Lines 74-80, 116-120: take the list of metadata entries.
Shutdown_Begin ==
    /\ Serving
    /\ ~RequestsInFlight
    /\ shutdownTodo' = run_metadata
    /\ shutdownRunning' = {r \in Range(run_metadata) : db[r].status = RUNNING}
    /\ shutdownPc' = IF run_metadata = <<>> THEN "done" ELSE "visiting"
    /\ UNCHANGED <<db, startVars, run_metadata, active_streams, taskVars,
                   cancelVars, instance, cleanups, notified, shutdownSeen>>
    /\ UNCHANGED apartVars

\* Lines 82-107: the next entry: terminate its process, load its run and mark
\* it if it is RUNNING.
Shutdown_Visit ==
    /\ shutdownPc = "visiting"
    /\ shutdownTodo # <<>>
    /\ LET r == Head(shutdownTodo) IN
         /\ instance' = [instance EXCEPT ![r] = IF HasCliProcess THEN "killed" ELSE @]
         /\ shutdownSeen' = IF db[r].status = RUNNING
                            THEN shutdownSeen \cup {r} ELSE shutdownSeen
    /\ shutdownTodo' = Tail(shutdownTodo)
    /\ UNCHANGED <<db, startVars, run_metadata, active_streams, taskVars,
                   cancelVars, cleanups, notified, shutdownPc, shutdownRunning>>
    /\ UNCHANGED apartVars

\* Lines 109-120: commit the session and clear the metadata.
Shutdown_Commit ==
    /\ shutdownPc = "visiting"
    /\ shutdownTodo = <<>>
    /\ db' = [r \in RunIds |->
                 IF r \in shutdownSeen THEN ShutdownCancel(db[r]) ELSE db[r]]
    /\ run_metadata' = <<>>
    /\ shutdownPc' = "done"
    /\ UNCHANGED <<startVars, active_streams, taskVars, cancelVars, instance,
                   cleanups, notified, shutdownTodo, shutdownSeen,
                   shutdownRunning>>
    /\ UNCHANGED apartVars

----------------------------------------------------------------------------
Requests(r) ==
    \/ \E channel \in Channels : StartRun_Create(r, channel)
    \/ CancelRun_Load(r)
    \/ \E success \in BOOLEAN : CancelRun_Pause(r, success)
    \/ CancelRun_Finish(r)

Consumer(r) ==
    \/ Task_Start(r)
    \/ \E event \in LineEvents \cup LastEvents : Stream_Event(r, event)
    \/ Stream_End(r)
    \/ Stream_Raise(r)
    \/ ProcessEvent_Load(r)
    \/ ProcessEvent_Commit(r)
    \/ \E took \in BOOLEAN : ProcessEvent_Cleanup(r, took)
    \/ Task_Cancelled(r)
    \/ StreamError_Load(r)
    \/ StreamError_Commit(r)

Shutdown == Shutdown_Begin \/ Shutdown_Visit \/ Shutdown_Commit

\* The orchestrator over a worker client that takes the call of start_run.
Next ==
    \/ \E r \in RunIds : Requests(r) \/ StartRun_Worker(r) \/ Consumer(r)
    \/ Shutdown

Spec == Init /\ [][Next]_vars

\* The orchestrator with the call of start_run as it is written: no run gets a
\* worker, so the steps that need one are never enabled.
NextWired ==
    \/ \E r \in RunIds :
         \/ \E channel \in Channels : StartRun_Create(r, channel)
         \/ StartRun_Wired(r)
         \/ CancelRun_Load(r)
         \/ CancelRun_Finish(r)
    \/ Shutdown_Begin

SpecWired == Init /\ [][NextWired]_vars

----------------------------------------------------------------------------
(* Startup: lifespan up to its yield, and cleanup_stale_runs               *)
(* (main.py:31-62, 126-140)                                                *)

\* A run as start_run leaves it once the worker is up.
RunningRun == mark_started([NewRun EXCEPT !.worker = TRUE])

\* Rows a previous process can have left in the runs table.
PersistedRuns ==
    {NoRun, NewRun, RunningRun,
     mark_completed(RunningRun, SUCCEEDED, "Task summary"),
     mark_completed(RunningRun, FAILED, "Task failed"),
     mark_completed(NewRun, CANCELLED, "Cancelled")}

\* The process starts: a new orchestrator over the rows of the last process.
InitStartup ==
    /\ db \in [RunIds -> PersistedRuns]
    /\ startupPc = "boot"
    /\ staleRuns = {}
    /\ projects = {"configured"}
    /\ startPc = [r \in RunIds |-> "idle"]
    /\ startRet = [r \in RunIds |-> "none"]
    /\ command = [r \in RunIds |-> "none"]
    /\ worker = [r \in RunIds |-> "none"]
    /\ clientCalls = [r \in RunIds |-> 0]
    /\ run_metadata = <<>>
    /\ active_streams = {}
    /\ taskPc = [r \in RunIds |-> "none"]
    /\ taskCancel = [r \in RunIds |-> FALSE]
    /\ taskEvent = [r \in RunIds |-> "none"]
    /\ taskRun = [r \in RunIds |-> NoRow]
    /\ stream = [r \in RunIds |-> "open"]
    /\ cancelPc = [r \in RunIds |-> "idle"]
    /\ cancelRun = [r \in RunIds |-> FALSE]
    /\ cancelOk = [r \in RunIds |-> FALSE]
    /\ cancelRet = [r \in RunIds |-> "none"]
    /\ cancelLine = [r \in RunIds |-> 0]
    /\ cancels = [r \in RunIds |-> 0]
    /\ pauseAsked = [r \in RunIds |-> 0]
    /\ instance = [r \in RunIds |-> "none"]
    /\ cleanups = [r \in RunIds |-> 0]
    /\ notified = [r \in RunIds |-> 0]
    /\ shutdownPc = "idle"
    /\ shutdownTodo = <<>>
    /\ shutdownSeen = {}
    /\ shutdownRunning = {}
    /\ InitClient
    /\ InitGenerator
    /\ InitAgent

\* stale_runs if the query took every active run.
stale_runs_active(rows) == {r \in RunIds : is_active(rows[r].status)}

\* main.py:40-44: the runs whose status is RUNNING.
stale_runs(rows) == {r \in RunIds : rows[r].status = RUNNING}

\* main.py:49-52: status and summary are set; completed_at is no column.
StartupCancel(run) ==
    [run EXCEPT !.status = CANCELLED, !.summary = "Server restarted"]

\* main.py:38-44: select the stale runs.
Startup_Load ==
    /\ startupPc = "boot"
    /\ staleRuns' = stale_runs(db)
    /\ startupPc' = "loaded"
    /\ UNCHANGED <<db, startVars, run_metadata, active_streams, taskVars,
                   cancelVars, instance, cleanups, notified, shutdownVars,
                   clientVars, generatorVars, applied, reply, agentVars>>

\* main.py:46-62, 140: mark them, commit, and yield to the server.
Startup_Commit ==
    /\ startupPc = "loaded"
    /\ db' = [r \in RunIds |->
                 IF r \in staleRuns THEN StartupCancel(db[r]) ELSE db[r]]
    /\ staleRuns' = {}
    /\ startupPc' = "serving"
    /\ UNCHANGED <<startVars, run_metadata, active_streams, taskVars,
                   cancelVars, instance, cleanups, notified, shutdownVars,
                   clientVars, generatorVars, applied, reply, agentVars>>

\* The start of the process, and CancelRun requests for the rows it finds.
NextStartup ==
    \/ Startup_Load
    \/ Startup_Commit
    \/ \E r \in RunIds : CancelRun_Load(r) \/ CancelRun_Finish(r)

SpecStartup == InitStartup /\ [][NextStartup]_vars

----------------------------------------------------------------------------
(* The commands ClineCliClient sends to a worker instance (cli_client.py)  *)

\* The address of the instance of run r, and the texts callers pass: the
\* task prompt and the messages ("" for none).
Address(r) == <<"address", r>>

Prompts == {"prompt"}

Messages == {"", "Proceed with the plan"}

\* _create_task if it passed the autonomy flag.
task_new_cmd_yolo(address, prompt) ==
    <<"cline", "task", "new", "-y", "-m", "plan", "--address", address, prompt>>

\* cli_client.py:1079-1085.
task_new_cmd(address, prompt) ==
    <<"cline", "task", "new", "-m", "plan", "--address", address, prompt>>

\* cli_client.py:662-669.
approve_plan_cmd(address, message) ==
    <<"cline", "task", "send", "-y", "-m", "act", "--approve", "--address",
      address, message>>

\* cli_client.py:718-722.
send_message_cmd(address, message) ==
    <<"cline", "task", "send", "--address", address, message>>

\* cli_client.py:775-783.
send_response_cmd(address, action, message) ==
    <<"cline", "task", "send", "--address", address>>
      \o (IF action = "approve" THEN <<"--approve">>
          ELSE IF action = "deny" THEN <<"--deny">> ELSE <<>>)
      \o (IF message # "" THEN <<message>> ELSE <<>>)

\* cli_client.py:522.
pause_cmd(address) == <<"cline", "task", "pause", "--address", address>>

\* cli_client.py:559.
kill_cmd(address) == <<"cline", "instance", "kill", address>>

\* The flags of the cline CLI that give a task autonomy: -y, and ACT mode.
HasFlag(cmd, flag) == \E i \in 1..Len(cmd) : cmd[i] = flag

ModeOf(cmd) ==
    IF \E i \in 1..(Len(cmd) - 1) : cmd[i] = "-m"
    THEN cmd[(CHOOSE i \in 1..(Len(cmd) - 1) : cmd[i] = "-m") + 1]
    ELSE "unchanged"

Autonomous(cmd) == HasFlag(cmd, "-y") \/ ModeOf(cmd) = "act"

\* The command runs against the instance of run r.
Send(r, cmd) ==
    /\ lastCmd' = [lastCmd EXCEPT ![r] = cmd]
    /\ autonomous' = [autonomous EXCEPT ![r] = @ \/ Autonomous(cmd)]

\* start_run, its third step (cli_client.py:109): the task of the instance.
Client_CreateTask(r, prompt) ==
    /\ lastCmd[r] = <<>>
    /\ Send(r, task_new_cmd(Address(r), prompt))
    /\ UNCHANGED <<approved, orchestratorVars, startupVars, generatorVars, applied, reply, agentVars>>

\* The instance has its task: the other methods take its address.
HasTask(r) == lastCmd[r] # <<>>

Client_ApprovePlan(r, message) ==
    /\ HasTask(r)
    /\ message # ""
    /\ approved' = [approved EXCEPT ![r] = TRUE]
    /\ Send(r, approve_plan_cmd(Address(r), message))
    /\ UNCHANGED <<orchestratorVars, startupVars, generatorVars, applied, reply, agentVars>>

Client_SendMessage(r, message) ==
    /\ HasTask(r)
    /\ message # ""
    /\ Send(r, send_message_cmd(Address(r), message))
    /\ UNCHANGED <<approved, orchestratorVars, startupVars, generatorVars, applied, reply, agentVars>>

Client_SendResponse(r, action, message) ==
    /\ HasTask(r)
    /\ Send(r, send_response_cmd(Address(r), action, message))
    /\ UNCHANGED <<approved, orchestratorVars, startupVars, generatorVars, applied, reply, agentVars>>

Client_CancelRun(r) ==
    /\ HasTask(r)
    /\ Send(r, pause_cmd(Address(r)))
    /\ UNCHANGED <<approved, orchestratorVars, startupVars, generatorVars, applied, reply, agentVars>>

Client_CleanupInstance(r) ==
    /\ HasTask(r)
    /\ Send(r, kill_cmd(Address(r)))
    /\ UNCHANGED <<approved, orchestratorVars, startupVars, generatorVars, applied, reply, agentVars>>

\* The worker client under callers that use its methods in any order.
NextClient ==
    \E r \in RunIds :
        \/ \E prompt \in Prompts : Client_CreateTask(r, prompt)
        \/ \E message \in Messages : Client_ApprovePlan(r, message)
        \/ \E message \in Messages : Client_SendMessage(r, message)
        \/ \E action \in {"approve", "deny"}, message \in Messages :
              Client_SendResponse(r, action, message)
        \/ Client_CancelRun(r)
        \/ Client_CleanupInstance(r)

SpecClient == Init /\ [][NextClient]_vars

----------------------------------------------------------------------------
(* ClineCliClient.stream_events (cli_client.py:133-339) with               *)
(* _is_complete_plan (cli_client.py:341-412)                               *)

\* Number of output lines the followed process writes at most.
MaxLines == 2

\* cli_client.py:157.
MAX_TIMEOUT_RETRIES == 2

\* A text is taken by its length and by which of the substrings the code
\* looks for it contains.
Contains(text, marker) == marker \in text.has

\* Those substrings in a line of output (cli_client.py:201-227).
LineMarkers == {"### Task completed", "### Progress", "Approve?"}

Lines == [len : {1}, has : SUBSET LineMarkers]

\* The patterns of lines 208-222.
approval_patterns ==
    {"wants to execute", "Approve?", "approve this action",
     "waiting for approval", "Do you want to proceed", "wants to run",
     "wants to write", "wants to read", "Allow this action",
     "### Tool use request", "execute_command:", "write_to_file:",
     "read_file:"}

\* str.lower on the substrings in use (line 225).
lowercase(text) ==
    CASE text \in {"Approve?", "APPROVE?"} -> "approve?"
      [] text = "Do you want to proceed" -> "do you want to proceed"
      [] text = "Allow this action" -> "allow this action"
      [] text = "### Tool use request" -> "### tool use request"
      [] text = "### Task completed" -> "### task completed"
      [] text = "### Progress" -> "### progress"
      [] OTHER -> text

\* Lines 224-227 if the patterns were compared as they are written.
requires_approval_exact(line) ==
    \E pattern \in approval_patterns : Contains(line, pattern)

\* Lines 224-227.
requires_approval(line) ==
    \E pattern \in approval_patterns :
        \E part \in line.has : lowercase(part) = lowercase(pattern)

\* Lines 193-242 if a line with the completion header ended the stream.
event_type_completes(line) ==
    IF Contains(line, "### Task completed") THEN "complete" ELSE "step"

\* cli_client.py:198-227: the event type of a line.
event_type(line) ==
    IF requires_approval(line) THEN "approval_required"
    ELSE IF Contains(line, "### Task completed") THEN "task_response"
    ELSE IF Contains(line, "### Progress") THEN "progress"
    ELSE "step"

\* Those substrings in the full output `cline task view` returns
\* (cli_client.py:365-388), and its lengths around the threshold of line 362.
PlanMarkers == {"## ", "Here's", "1.", "2.", "3.", "Steps:", "Reading file"}

PlanLengths == {0, 499, 500, 501}

Outputs ==
    {o \in [len : PlanLengths, has : SUBSET PlanMarkers] : o.len = 0 => o.has = {}}

\* Lines 366-373.
still_working_patterns ==
    {"Checkpoint created", "API request", "↑", "↓", "←", "→", "Reading file",
     "Searching", "Analyzing"}

\* Lines 381-386.
section_header == {"## ", "### "}

plan_intro == {"Here's", "This approach", "My plan"}

numbered_list == {"1.", "2.", "3."}

plan_keywords == {"### Progress", "Steps:", "I'll proceed", "I will"}

Any(markers, text) == \E marker \in markers : Contains(text, marker)

Count(markers, text) == Cardinality({m \in markers : Contains(text, m)})

Bit(b) == IF b THEN 1 ELSE 0

\* _is_complete_plan if it knew the rule of the plan introduction only.
is_complete_plan_intro_only(text) ==
    /\ text.len >= 500
    /\ \A pattern \in still_working_patterns : ~Contains(text, pattern)
    /\ Contains(text, "Here's") /\ Count({"1.", "2.", "3."}, text) >= 2

\* cli_client.py:357-412.
is_complete_plan(text) ==
    LET has_section_header == Any(section_header, text)
        has_plan_intro == Any(plan_intro, text)
        numbered_items == Count(numbered_list, text)
        has_keywords == Any(plan_keywords, text)
        total_indicators ==
            Bit(has_section_header) + Bit(has_plan_intro)
              + Bit(numbered_items >= 2) + Bit(has_keywords)
    IN  /\ text.len > 0
        /\ ~(text.len < 500)
        /\ \A pattern \in still_working_patterns : ~Contains(text, pattern)
        /\ \/ has_section_header /\ numbered_items >= 2
           \/ has_plan_intro /\ numbered_items >= 2
           \/ total_indicators >= 2

\* The retries are used up one timeout later than cli_client.py:277 says.
RetriesExceeded(count) == count > MAX_TIMEOUT_RETRIES

\* cli_client.py:277: the retries are used up.
RetriesExhausted(count) == count >= MAX_TIMEOUT_RETRIES

\* cli_client.py:313-335: the event that ends a stream whose process exited.
final_event_always_complete(returncode) == "complete"

final_event(returncode) == IF returncode = 0 THEN "complete" ELSE "error"

ExitCodes == {0, 1}

\* Lines 161-179: the follow process is spawned.
Gen_Start ==
    /\ genPc = "start"
    /\ proc' = [proc EXCEPT !.state = "running"]
    /\ genPc' = "reading"
    /\ UNCHANGED <<timeout_count, line_count, yielded, plan_summary,
                   applied, reply, agentVars>>

\* The followed process exits on its own.
Proc_Exit(returncode) ==
    /\ proc.state = "running"
    /\ genPc \in {"reading", "plan_yielded"}
    /\ proc' = [state |-> "exited", returncode |-> returncode]
    /\ UNCHANGED <<genPc, timeout_count, line_count, yielded, plan_summary,
                   applied, reply, agentVars>>

\* stream_events if a line of output began the count of idle timeouts anew.
idle_timeouts_reset(count) == 0

\* Lines 194-196: a line sets line_count and last_event_time; timeout_count
\* is as it was.
idle_timeouts(count) == count

\* Lines 182-243: readline returns a line that is not blank, and its event
\* is yielded.
Gen_Line(line) ==
    /\ genPc = "reading"
    /\ proc.state \in {"running", "exited"}
    /\ line_count < MaxLines
    /\ line_count' = line_count + 1
    /\ yielded' = Append(yielded, event_type(line))
    /\ timeout_count' = idle_timeouts(timeout_count)
    /\ UNCHANGED <<genPc, proc, plan_summary,
                   applied, reply, agentVars>>

\* Lines 245-302: no line for PLAN_IDLE_TIMEOUT seconds.  The full output is
\* fetched (`text`) and plan_complete is yielded if it is a complete plan or
\* the retries are used up; otherwise the loop goes on.
Gen_Timeout(text) ==
    /\ genPc = "reading"
    /\ proc.state = "running"
    /\ timeout_count' = timeout_count + 1
    /\ plan_summary' = text
    /\ IF is_complete_plan(text) \/ RetriesExhausted(timeout_count + 1)
       THEN /\ yielded' = Append(yielded, "plan_complete")
            /\ genPc' = "plan_yielded"
       ELSE UNCHANGED <<yielded, genPc>>
    /\ UNCHANGED <<proc, line_count, applied, reply, agentVars>>

\* Lines 273-275, 294-296: resumed after plan_complete, the generator kills
\* the process and returns.  process.kill() raises ProcessLookupError if the
\* process has exited and asyncio has already let go of it (`gone`).
Gen_Stop(gone) ==
    /\ genPc = "plan_yielded"
    /\ IF proc.state = "exited" /\ gone
       THEN genPc' = "raised" /\ proc' = proc
       ELSE /\ genPc' = "done"
            /\ proc' = IF proc.state = "running"
                       THEN [proc EXCEPT !.state = "killed"] ELSE proc
    /\ UNCHANGED <<timeout_count, line_count, yielded, plan_summary,
                   applied, reply, agentVars>>

\* Lines 187-189, 304-335: readline returns EOF; the final event is yielded
\* and the generator returns.
Gen_Eof ==
    /\ genPc = "reading"
    /\ proc.state = "exited"
    /\ yielded' = Append(yielded, final_event(proc.returncode))
    /\ genPc' = "done"
    /\ UNCHANGED <<proc, timeout_count, line_count, plan_summary,
                   applied, reply, agentVars>>

\* Lines 337-339: an exception in the loop is logged and raised again.
Gen_Raise ==
    /\ genPc = "reading"
    /\ genPc' = "raised"
    /\ UNCHANGED <<proc, timeout_count, line_count, yielded, plan_summary,
                   applied, reply, agentVars>>

\* What a generator leaves alone when nothing but its consumer's requests
\* for the next event is looked at.
StreamAlone == UNCHANGED <<orchestratorVars, startupVars, clientVars>>

\* One stream_events generator driven to its end by its consumer.
NextStream ==
    \/ Gen_Start /\ StreamAlone
    \/ \E returncode \in ExitCodes : Proc_Exit(returncode) /\ StreamAlone
    \/ \E line \in Lines : Gen_Line(line) /\ StreamAlone
    \/ \E text \in Outputs : Gen_Timeout(text) /\ StreamAlone
    \/ \E gone \in BOOLEAN : Gen_Stop(gone) /\ StreamAlone
    \/ Gen_Eof /\ StreamAlone
    \/ Gen_Raise /\ StreamAlone

SpecStream == Init /\ [][NextStream]_vars

\* Substrings of lines in other case than the patterns have.
CaseMarkers == {"APPROVE?", "### task completed"}

\* The lines readline returns: blank ones (line 192) and those of Lines with
\* the markers in either case.
RawLines ==
    {[len |-> 0, has |-> {}]}
        \cup [len : {1}, has : SUBSET (LineMarkers \cup CaseMarkers)]

\* Number of lines read from one stream.
MaxRead == 2

\* Lines 182-243: readline returns a line; a blank one is skipped, another
\* one is counted and its event yielded.
Gen_ReadLine(line) ==
    /\ genPc = "reading"
    /\ proc.state \in {"running", "exited"}
    /\ Len(lines_read) < MaxRead
    /\ lines_read' = Append(lines_read, line)
    /\ IF line.len = 0
       THEN UNCHANGED <<line_count, yielded>>
       ELSE /\ line_count' = line_count + 1
            /\ yielded' = Append(yielded, event_type(line))
    /\ UNCHANGED <<genPc, proc, timeout_count, plan_summary, applied, reply,
                   name, slug, workspaceVars, cli>>

\* A started generator reading the lines of its process.
NextLines ==
    \/ Gen_Start /\ StreamAlone
    \/ \E line \in RawLines : Gen_ReadLine(line) /\ StreamAlone

SpecLines == Init /\ [][NextLines]_vars

\* Full outputs with more of the markers; a text that holds a longer marker
\* holds the shorter ones inside it.
PlanTextMarkers ==
    {"## ", "### ", "### Progress", "My plan", "1.", "2.", "I will", "→"}

PlanTexts ==
    {o \in [len : PlanLengths, has : SUBSET PlanTextMarkers] :
        /\ o.len = 0 => o.has = {}
        /\ "### Progress" \in o.has => "### " \in o.has
        /\ "### " \in o.has => "## " \in o.has}

\* A generator that has read some lines and meets its idle timeouts with
\* any of these texts as the full output.
NextPlan ==
    \/ Gen_Start /\ StreamAlone
    \/ Gen_Line([len |-> 1, has |-> {}]) /\ StreamAlone
    \/ \E text \in PlanTexts : Gen_Timeout(text) /\ StreamAlone

SpecPlan == Init /\ [][NextPlan]_vars

----------------------------------------------------------------------------
(* _handle_event_stream reading stream_events (service.py:261-285) *)

\* The run whose consumer task reads the generator.
StreamRun == CHOOSE r \in RunIds : \A q \in RunIds : r <= q

\* The loop if it started _process_run_event without awaiting it.
AwaitsNextUnawaited(pc) == pc \in {"waiting", "loading", "committing"}

\* Lines 275, 280: the loop asks the generator for its next event when the
\* _process_run_event it awaited has returned.
AwaitsNext(pc) == pc = "waiting"

\* Outputs without a still-working marker that idle timeouts fetch here.
StalledOutputs == {text \in Outputs : text.len > 500 /\ text.has \subseteq {"## ", "1.", "2."}}

\* A generator runs only while its consumer waits for the next event.
GenStep ==
    \/ Gen_Start
    \/ \E line \in Lines : Gen_Line(line)
    \/ \E text \in StalledOutputs : Gen_Timeout(text)
    \/ \E gone \in BOOLEAN : Gen_Stop(gone)
    \/ Gen_Eof
    \/ Gen_Raise

\* Line 275: the generator runs on; the loop body gets the event it yields,
\* the loop ends when it returns, and line 284 catches what it raises.
Handle_Next(r) ==
    /\ LoopRuns
    /\ AwaitsNext(taskPc[r])
    /\ ~taskCancel[r]
    /\ GenStep
    /\ IF yielded' # yielded
       THEN /\ taskEvent' = [taskEvent EXCEPT ![r] = yielded'[Len(yielded')]]
            /\ taskPc' = [taskPc EXCEPT ![r] = "loading"]
       ELSE /\ taskEvent' = taskEvent
            /\ taskPc' = [taskPc EXCEPT ![r] =
                             IF genPc' = "done" THEN "finished"
                             ELSE IF genPc' = "raised" THEN "failing" ELSE @]
    /\ UNCHANGED <<db, startVars, run_metadata, active_streams, taskCancel,
                   taskRun, stream, cancelVars, instance, cleanups, notified,
                   shutdownVars, startupVars, clientVars, reply, agentVars>>

\* Line 339 of _process_run_event, with the event noted as applied.
Handle_Commit(r) ==
    /\ ProcessEvent_Apply(r)
    /\ applied' = Append(applied, taskEvent[r])
    /\ UNCHANGED <<startupVars, clientVars, generatorVars, reply, agentVars>>

\* One run, its consumer task and the generator the task reads, with the
\* cancel requests for the run.
NextConsume ==
    \/ \E channel \in Channels : StartRun_Create(StreamRun, channel)
    \/ StartRun_Worker(StreamRun)
    \/ Task_Start(StreamRun)
    \/ Handle_Next(StreamRun)
    \/ \E returncode \in ExitCodes : Proc_Exit(returncode) /\ StreamAlone
    \/ ProcessEvent_Load(StreamRun)
    \/ Handle_Commit(StreamRun)
    \/ \E took \in BOOLEAN : ProcessEvent_Cleanup(StreamRun, took)
    \/ Task_Cancelled(StreamRun)
    \/ StreamError_Load(StreamRun)
    \/ StreamError_Commit(StreamRun)
    \/ CancelRun_Load(StreamRun)
    \/ \E success \in BOOLEAN : CancelRun_Pause(StreamRun, success)
    \/ CancelRun_Finish(StreamRun)

SpecConsume == Init /\ [][NextConsume]_vars

----------------------------------------------------------------------------
(* respond_to_run (dashboard/routes.py:179-262) and                        *)
(* handle_approve_plan_action (slack_gateway/handlers.py:639-706)          *)

\* models/run.py:21-27: the value of a member of RunStatus.
value(status) ==
    CASE status = QUEUED -> "queued"
      [] status = RUNNING -> "running"
      [] status = SUCCEEDED -> "succeeded"
      [] status = FAILED -> "failed"
      [] status = CANCELLED -> "cancelled"

Actions == {"approve", "deny", "retry"}

\* routes.py:198-253: the answer to a respond request, given whether
\* send_response got exit code 0 from the CLI.
respond_to_run(run, metadata, action, success) ==
    IF run.status = NoRow THEN "404 Run not found"
    ELSE IF value(run.status) \notin {"RUNNING"} THEN "400 Cannot respond to run"
    ELSE IF ~metadata THEN "400 Run metadata not found"
    ELSE IF action \notin {"approve", "deny"} THEN "400 Invalid action"
    ELSE IF success THEN "200 Response sent"
    ELSE "500 Failed to send response"

\* The answers given after send_response was called.
Forwarded == {"200 Response sent", "500 Failed to send response"}

RespondToRun(r, action, message, success) ==
    /\ Serving
    /\ LET answer == respond_to_run(db[r], r \in Range(run_metadata), action, success) IN
         /\ reply' = [reply EXCEPT ![r] = answer]
         /\ IF answer \in Forwarded
            THEN Send(r, send_response_cmd(Address(r), action, message))
            ELSE UNCHANGED <<lastCmd, autonomous>>
    /\ UNCHANGED <<approved, orchestratorVars, startupVars, generatorVars,
                   applied, agentVars>>

\* service.py:28-482: the methods of RunOrchestratorService.
OrchestratorMethods ==
    {"start_run", "cancel_run", "_resolve_project", "_start_event_stream",
     "_stop_event_stream", "_handle_event_stream", "_process_run_event",
     "_post_initial_slack_message", "_post_event_update",
     "_post_cancellation_update"}

\* handlers.py:667-706: the answers to an approve request.
ApproveAnswers ==
    {"Plan approved - Executing...", "Failed to approve plan",
     "Error occurred while approving plan"}

\* handlers.py:661-697: orchestrator.approve_run is looked up; the
\* AttributeError is caught at line 693.
ApprovePlan(r) ==
    /\ Serving
    /\ "approve_run" \notin OrchestratorMethods
    /\ reply' = [reply EXCEPT ![r] = "Error occurred while approving plan"]
    /\ UNCHANGED <<orchestratorVars, startupVars, clientVars, generatorVars,
                   applied, agentVars>>

\* One run and its consumer, with cancel, respond and approve requests.
NextRespond ==
    \/ Requests(StreamRun)
    \/ StartRun_Worker(StreamRun)
    \/ Consumer(StreamRun)
    \/ \E action \in Actions, message \in Messages, success \in BOOLEAN :
          RespondToRun(StreamRun, action, message, success)
    \/ ApprovePlan(StreamRun)

SpecRespond == Init /\ [][NextRespond]_vars

\* One run, its consumer and the generator it reads, with cancel and approve
\* requests.
NextApprove ==
    \/ NextConsume
    \/ ApprovePlan(StreamRun)

SpecApprove == Init /\ [][NextApprove]_vars

----------------------------------------------------------------------------
(* _process_run_event when its session raises (service.py:320-357) *)

\* Lines 322, 339, 356-357: session.execute or session.commit raises; the
\* handler logs the error, the session is rolled back (database.py:55-59) and
\* _process_run_event returns to the loop.
ProcessEvent_Raise(r) ==
    /\ LoopRuns
    /\ taskPc[r] \in {"loading", "committing"}
    /\ ~taskCancel[r]
    /\ taskPc' = [taskPc EXCEPT ![r] = "waiting"]
    /\ taskEvent' = [taskEvent EXCEPT ![r] = "none"]
    /\ taskRun' = [taskRun EXCEPT ![r] = NoRow]
    /\ UNCHANGED <<db, startVars, run_metadata, active_streams, taskCancel,
                   stream, cancelVars, instance, cleanups, notified,
                   shutdownVars>>
    /\ UNCHANGED apartVars

\* The events of a stream whose worker process exits on its own
\* (cli_client.py:187-189, 304-335).
ExitEvents == {"complete", "error"}

\* The runs and their consumers over a database that can fail while an
\* event is processed, with worker processes that run until they exit.
NextFaulty ==
    \E r \in RunIds :
        \/ \E channel \in Channels : StartRun_Create(r, channel)
        \/ StartRun_Worker(r)
        \/ Task_Start(r)
        \/ \E event \in LineEvents \cup ExitEvents : Stream_Event(r, event)
        \/ Stream_End(r)
        \/ ProcessEvent_Load(r)
        \/ ProcessEvent_Commit(r)
        \/ ProcessEvent_Raise(r)
        \/ \E took \in BOOLEAN : ProcessEvent_Cleanup(r, took)

SpecFaulty == Init /\ [][NextFaulty]_vars

----------------------------------------------------------------------------
(* WorkspaceManager._slugify (modules/agent/workspace_manager.py:56-95) *)

\* Longest project name.
MaxName == 5

\* Characters of project names: a capital and a small letter, a digit, the
\* space, underscore and hyphen, a punctuation mark and a letter outside ASCII.
Chars == {"A", "b", "7", " ", "_", "-", "!", "É"}

Names == UNION {[1..n -> Chars] : n \in 0..MaxName}

LowerLetters ==
    {"a", "b", "c", "d", "e", "f", "g", "h", "i", "j", "k", "l", "m", "n",
     "o", "p", "q", "r", "s", "t", "u", "v", "w", "x", "y", "z"}

Digits == {"0", "1", "2", "3", "4", "5", "6", "7", "8", "9"}

\* str.lower (line 77).
lower(text) ==
    [i \in 1..Len(text) |->
        CASE text[i] = "A" -> "a" [] text[i] = "É" -> "é" [] OTHER -> text[i]]

\* str.replace (line 80).
replace(text, old, new) ==
    [i \in 1..Len(text) |-> IF text[i] = old THEN new ELSE text[i]]

\* The substitution if it replaced pairs of hyphens, left to right, and not
\* whole runs.
RECURSIVE collapse_pairs(_)
collapse_pairs(text) ==
    IF Len(text) < 2 THEN text
    ELSE IF text[1] = "-" /\ text[2] = "-"
         THEN <<"-">> \o collapse_pairs(Tail(Tail(text)))
    ELSE <<text[1]>> \o collapse_pairs(Tail(text))

\* re.sub(r'-+', '-', slug) (line 86).
RECURSIVE collapse(_)
collapse(text) ==
    IF Len(text) < 2 THEN text
    ELSE IF text[1] = "-" /\ text[2] = "-" THEN collapse(Tail(text))
    ELSE <<text[1]>> \o collapse(Tail(text))

\* str.strip if it stripped the left end only.
RECURSIVE lstrip(_, _)
lstrip(text, ch) ==
    IF text # <<>> /\ text[1] = ch THEN lstrip(Tail(text), ch) ELSE text

\* str.strip (line 89).
RECURSIVE strip(_, _)
strip(text, ch) ==
    IF text # <<>> /\ text[1] = ch THEN strip(Tail(text), ch)
    ELSE IF text # <<>> /\ text[Len(text)] = ch
         THEN strip(SubSeq(text, 1, Len(text) - 1), ch)
    ELSE text

\* Lines 76-95.
slugify(text) ==
    LET lowered == lower(text)
        hyphened == replace(replace(lowered, " ", "-"), "_", "-")
        kept == SelectSeq(hyphened,
                          LAMBDA ch : ch \in LowerLetters \cup Digits \cup {"-"})
        stripped == strip(collapse(kept), "-")
    IN  IF stripped = <<>>
        THEN <<"w", "o", "r", "k", "s", "p", "a", "c", "e">>
        ELSE stripped

InitSlug ==
    /\ InitService
    /\ name \in Names
    /\ slug = <<>>
    /\ disk = <<>>
    /\ InitCallers

\* _get_workspace_path (lines 155-166) asks for the slug of the name.
Slugify ==
    /\ slug' = slugify(name)
    /\ UNCHANGED <<name, workspaceVars, cli, lines_read, orchestratorVars, startupVars,
                   clientVars, generatorVars, applied, reply>>

SpecSlug == InitSlug /\ [][Slugify]_vars

----------------------------------------------------------------------------
(* WorkspaceManager.get_workspace and cleanup_orphaned_workspaces          *)
(* (modules/agent/workspace_manager.py:97-287, 327-365)                    *)

\* Project names, and the names under workspace_base: their slugs and one
\* that is no project's.
Projects == {<<"A">>, <<"b", " ", "7">>}

Dirs == {slugify(project) : project \in Projects} \cup {<<"o", "l", "d">>}

\* What can be at a path: nothing, a file, a directory without .git, a
\* directory with the .git of a clone that is still running, a checkout.
DirStates == {"absent", "file", "plain", "partial", "checkout"}

\* os.path.exists (lines 131, 178).
path_exists(entry) == entry # "absent"

\* _is_valid_workspace if it did not look for .git.
is_existing_path(entry) == entry # "absent"

\* Lines 168-182.
is_valid_workspace(entry) == entry \in {"partial", "checkout"}

\* os.path.isdir (line 350).
isdir(entry) == entry \in {"plain", "partial", "checkout"}

\* get_workspace if it let the GitError of a pull through.
after_pull_strict(pulled) == IF pulled THEN "returned" ELSE "raised"

\* Lines 123-129, 153: the GitError of a pull is caught and the path returned.
after_pull(pulled) == "returned"

\* The directories found at the start of a process.
InitWorkspace ==
    /\ InitService
    /\ name = <<>>
    /\ slug = <<>>
    /\ disk \in [Dirs -> DirStates \ {"partial"}]
    /\ InitCallers

\* Lines 118-146, 202-225: the path is computed and tested; a valid
\* workspace is pulled, anything else at the path is removed (`removed`:
\* shutil.rmtree did not raise; on a file it always raises) and `git clone`
\* is started.
GetWorkspace_Begin(c, project, removed) ==
    /\ wsPc[c] = "idle"
    /\ LET workspace_path == slugify(project)
           entry == disk[workspace_path]
       IN  /\ wsDir' = [wsDir EXCEPT ![c] = workspace_path]
           /\ IF is_valid_workspace(entry)
              THEN /\ wsPc' = [wsPc EXCEPT ![c] = "pull"]
                   /\ wsLog' = [wsLog EXCEPT ![c] = "pulling"]
                   /\ disk' = disk
              ELSE IF path_exists(entry)
              THEN IF removed /\ isdir(entry)
                   THEN /\ disk' = [disk EXCEPT ![workspace_path] = "absent"]
                        /\ wsPc' = [wsPc EXCEPT ![c] = "clone"]
                        /\ wsLog' = [wsLog EXCEPT ![c] = "cleaned up"]
                   ELSE /\ wsPc' = [wsPc EXCEPT ![c] = "raised"]
                        /\ wsLog' = [wsLog EXCEPT ![c] = "Failed to clean up"]
                        /\ disk' = disk
              ELSE /\ wsPc' = [wsPc EXCEPT ![c] = "clone"]
                   /\ wsLog' = [wsLog EXCEPT ![c] = "cloning"]
                   /\ disk' = disk
    /\ UNCHANGED <<active, cleaned, cli, lines_read, name, slug, orchestratorVars,
                   startupVars, clientVars, generatorVars, applied, reply>>

\* Lines 123-129, 242-287: `git pull` ends and get_workspace returns.
GitPull(c, pulled) ==
    /\ wsPc[c] = "pull"
    /\ wsPc' = [wsPc EXCEPT ![c] = after_pull(pulled)]
    /\ wsLog' = [wsLog EXCEPT ![c] = IF pulled THEN "pulled" ELSE "Failed to pull"]
    /\ UNCHANGED <<disk, wsDir, active, cleaned, cli, lines_read, name, slug,
                   orchestratorVars, startupVars, clientVars, generatorVars,
                   applied, reply>>

\* Lines 219-240: `git clone` makes the directory, then its .git, then
\* fetches and checks out (`fetched`).  It stops if the path is taken or its
\* directory is gone, and on a failure removes the directory it made;
\* get_workspace raises GitError then and returns the path otherwise.
GitClone(c, fetched) ==
    /\ wsPc[c] \in {"clone", "clone_init", "clone_fetch"}
    /\ LET entry == disk[wsDir[c]]
           goes == CASE wsPc[c] = "clone" -> entry = "absent"
                     [] wsPc[c] = "clone_init" -> entry = "plain"
                     [] wsPc[c] = "clone_fetch" -> entry = "partial" /\ fetched
       IN  IF goes
           THEN /\ disk' = [disk EXCEPT ![wsDir[c]] =
                               CASE wsPc[c] = "clone" -> "plain"
                                 [] wsPc[c] = "clone_init" -> "partial"
                                 [] wsPc[c] = "clone_fetch" -> "checkout"]
                /\ wsPc' = [wsPc EXCEPT ![c] =
                               CASE wsPc[c] = "clone" -> "clone_init"
                                 [] wsPc[c] = "clone_init" -> "clone_fetch"
                                 [] wsPc[c] = "clone_fetch" -> "returned"]
                /\ wsLog' = [wsLog EXCEPT ![c] = "cloning"]
           ELSE /\ disk' = [disk EXCEPT ![wsDir[c]] =
                               IF wsPc[c] = "clone_fetch" /\ isdir(entry)
                               THEN "absent" ELSE @]
                /\ wsPc' = [wsPc EXCEPT ![c] = "raised"]
                /\ wsLog' = [wsLog EXCEPT ![c] = "Failed to clone"]
    /\ UNCHANGED <<wsDir, active, cleaned, cli, lines_read, name, slug, orchestratorVars,
                   startupVars, clientVars, generatorVars, applied, reply>>

\* get_workspace calls for the projects, as the requests of AgentService
\* start them (service.py:379, 433).
NextWorkspace ==
    \E c \in Callers :
        \/ \E project \in Projects, removed \in BOOLEAN :
              GetWorkspace_Begin(c, project, removed)
        \/ \E pulled \in BOOLEAN : GitPull(c, pulled)
        \/ \E fetched \in BOOLEAN : GitClone(c, fetched)

SpecWorkspace == InitWorkspace /\ [][NextWorkspace]_vars

\* Lines 340-341 if the names were compared as they are.
active_names(names) == names

\* Lines 340-341.
active_slugs(names) == {slugify(project) : project \in names}

\* The directories and the argument of one cleanup_orphaned_workspaces call.
InitSweep ==
    /\ InitService
    /\ name = <<>>
    /\ slug = <<>>
    /\ disk \in [Dirs -> DirStates \ {"partial"}]
    /\ wsPc = [c \in Callers |-> "idle"]
    /\ wsDir = [c \in Callers |-> <<>>]
    /\ wsLog = [c \in Callers |-> "none"]
    /\ active \in SUBSET Projects
    /\ cleaned = <<>>
    /\ cli = NoCall
    /\ lines_read = <<>>

\* Lines 337-365: every directory whose name is no active slug is removed,
\* unless shutil.rmtree raises for it (`failing`), and the removals counted.
CleanupOrphaned(failing) ==
    /\ cleaned = <<>>
    /\ LET removed == {workspace_name \in Dirs :
                          /\ isdir(disk[workspace_name])
                          /\ workspace_name \notin active_slugs(active)
                          /\ workspace_name \notin failing}
       IN  /\ disk' = [workspace_name \in Dirs |->
                          IF workspace_name \in removed
                          THEN "absent" ELSE disk[workspace_name]]
           /\ cleaned' = <<Cardinality(removed)>>
    /\ UNCHANGED <<wsPc, wsDir, wsLog, active, cli, lines_read, name, slug,
                   orchestratorVars, startupVars, clientVars, generatorVars,
                   applied, reply>>

NextSweep == \E failing \in SUBSET Dirs : CleanupOrphaned(failing)

SpecSweep == InitSweep /\ [][NextSweep]_vars

----------------------------------------------------------------------------
(* ClineCliClient.start_run and its three steps (cli_client.py:48-131,     *)
(* 579-640, 960-1111)                                                      *)

\* cli_client.py:603-612.
auth_cmd(base_url) ==
    <<"cline", "auth", "--provider", "provider", "--apikey", "key",
      "--modelid", "model", "--output-format", "json">>
      \o (IF base_url # "" THEN <<"--baseurl", base_url>> ELSE <<>>)

\* cli_client.py:974.
instance_new_cmd == <<"cline", "instance", "new">>

\* start_run if it went on after a failed `cline auth`.
after_auth_lenient(returncode) == "instance"

\* cli_client.py:636-637, 94-105: a failed `cline auth` raises.
after_auth(returncode) == IF returncode = 0 THEN "instance" ELSE "raised"

\* What _create_instance reads from `cline instance new` (lines 993-1021,
\* 1038-1057): an "Address:" line, end of output with JSON that holds the
\* address, no line within the timeout, end of output with a failed exit
\* code, end of output with other text.
InstanceOutputs == {"address", "json", "timeout", "exit", "garbage"}

\* Lines 1012-1021, 1046-1053: the address taken from the output.
instance_address(output, address) ==
    IF output \in {"address", "json"} THEN address ELSE "none"

\* What `cline task new` prints when it exits 0 (lines 1100-1109): JSON with
\* task_id, JSON without it, other text.
TaskOutputs == {"task_id", "no_task_id", "text"}

TaskIds == {"task-1", "task-2"}

\* Lines 1102-1109.
task_id(output, id, address) ==
    CASE output = "task_id" -> id
      [] output = "no_task_id" -> "unknown"
      [] output = "text" -> address

\* Task prompts of start_run calls.
TaskPrompts == {"fix the bug", "add a test"}

\* The arguments of one start_run call.
InitStartRun ==
    /\ InitService
    /\ name = <<>>
    /\ slug = <<>>
    /\ disk = <<>>
    /\ wsPc = [c \in Callers |-> "idle"]
    /\ wsDir = [c \in Callers |-> <<>>]
    /\ wsLog = [c \in Callers |-> "none"]
    /\ active = {}
    /\ cleaned = <<>>
    /\ lines_read = <<>>
    /\ \E base_url \in {"", "url"}, prompt \in TaskPrompts :
          cli = [NoCall EXCEPT !.pc = "auth", !.base_url = base_url,
                               !.prompt = prompt]

CliAlone ==
    UNCHANGED <<name, slug, workspaceVars, lines_read, orchestratorVars,
                startupVars, clientVars, generatorVars, applied, reply>>

\* Lines 94-101, 603-639: `cline auth` runs and exits with returncode.
Cli_ConfigureAuth(returncode) ==
    /\ cli.pc = "auth"
    /\ cli' = [cli EXCEPT !.sent = Append(@, auth_cmd(cli.base_url)),
                          !.auth = IF returncode = 0 THEN "ok" ELSE "failed",
                          !.pc = after_auth(returncode)]
    /\ CliAlone

\* Lines 104-105, 974-1057: `cline instance new` is spawned and its output
\* read.  With an address line or a timeout the process is still running
\* (it is never terminated, lines 1032-1036); at the end of its output it
\* may be (`running`) or not.  Without an address _create_instance raises.
Cli_CreateInstance(output, address, running) ==
    /\ cli.pc = "instance"
    /\ cli' = [cli EXCEPT
                 !.sent = Append(@, instance_new_cmd),
                 !.proc = IF output \in {"address", "timeout"} THEN "alive"
                          ELSE IF output = "exit" THEN "exited"
                          ELSE IF running THEN "alive" ELSE "exited",
                 !.address = instance_address(output, address),
                 !.pc = IF instance_address(output, address) # "none"
                        THEN "task" ELSE "raised"]
    /\ CliAlone

\* Lines 108-131, 1079-1111: `cline task new` is sent to the address; on exit
\* code 0 the worker has created task `id` there and start_run returns, on
\* another exit code it raises.
Cli_CreateTask(returncode, output, id) ==
    /\ cli.pc = "task"
    /\ LET cmd == task_new_cmd(cli.address, cli.prompt) IN
       IF returncode = 0
       THEN cli' = [cli EXCEPT
                      !.sent = Append(@, cmd),
                      !.created = [address |-> cli.address,
                                   id |-> IF output = "task_id"
                                          THEN id ELSE "none"],
                      !.result = [instance_address |-> cli.address,
                                  task_id |-> task_id(output, id, cli.address)],
                      !.pc = "returned"]
       ELSE cli' = [cli EXCEPT !.sent = Append(@, cmd), !.pc = "raised"]
    /\ CliAlone

NextStartRun ==
    \/ \E returncode \in ExitCodes : Cli_ConfigureAuth(returncode)
    \/ \E output \in InstanceOutputs, r \in RunIds, running \in BOOLEAN :
          Cli_CreateInstance(output, Address(r), running)
    \/ \E returncode \in ExitCodes, output \in TaskOutputs, id \in TaskIds :
          Cli_CreateTask(returncode, output, id)

SpecStartRun == InitStartRun /\ [][NextStartRun]_vars

----------------------------------------------------------------------------
(* Properties *)

\* The run state graph of the orchestrator.
RunGraph ==
    {<<QUEUED, RUNNING>>, <<QUEUED, FAILED>>, <<QUEUED, CANCELLED>>,
     <<RUNNING, SUCCEEDED>>, <<RUNNING, FAILED>>, <<RUNNING, CANCELLED>>}

\* C1: under every interleaving of the consumer task, cancel_run, the
\* stream-error handler and the shutdown hook, the status of a run changes
\* only along an edge of RunGraph; in particular a terminal status never
\* changes.  (Fails: cancel_run marks a QUEUED run CANCELLED while start_run
\* awaits the worker, and start_run then commits RUNNING or FAILED.)
C1_StatusFollowsGraph ==
    [][\A r \in RunIds :
          (db[r].status # NoRow /\ db'[r].status # db[r].status)
              => <<db[r].status, db'[r].status>> \in RunGraph]_vars

\* C2: every step that moves a run into SUCCEEDED, FAILED or CANCELLED posts
\* exactly one final-status message.  (Fails: a failed start_run and a stream
\* error post nothing, and the Slack updates return early because no run has
\* slack_thread_ts.)
C2_TerminalNotifiesOnce ==
    [][\A r \in RunIds :
          (~is_completed(db[r].status) /\ is_completed(db'[r].status))
              => notified'[r] = notified[r] + 1]_vars

\* No coroutine is at work on run r.
Quiet(r) ==
    /\ startPc[r] \in {"idle", "done"}
    /\ cancelPc[r] = "idle"
    /\ ~TaskLive(taskPc[r])
    /\ shutdownPc \in {"idle", "done"}

\* C3: once the coroutines that work on a run have returned, a run in a
\* terminal status has no entry in _run_metadata.  (Fails: cancel_run and the
\* stream-error handler never delete the entry, and the consumer task is
\* cancelled before it reaches its own delete.)
C3_NoMetadataWhenTerminal ==
    \A r \in RunIds :
        (Quiet(r) /\ is_completed(db[r].status)) => r \notin Range(run_metadata)

\* C4: the cleanup_instance call the consumer task makes after a terminal
\* event runs to its end: the instance is killed and the call returns.
\* (Fails: _stop_event_stream has cancelled the very task that makes the
\* call, so CancelledError ends it at its first await.)
C4_CleanupCarriedThrough ==
    [][\A r \in RunIds :
          (taskPc[r] = "cleanup" /\ taskPc'[r] # "cleanup")
              => (cleanups'[r] = cleanups[r] + 1 /\ instance'[r] = "killed")]_vars

C6_CancelActive ==
    [][\A r \in RunIds :
          (cancelPc[r] = "decided" /\ cancelPc'[r] = "idle")
              => IF cancelOk[r] \/ ~cancelRun[r]
                 THEN db'[r].status = CANCELLED /\ notified'[r] = notified[r] + 1
                 ELSE db'[r] = db[r] /\ notified'[r] = notified[r]]_vars

\* C7: a start_run whose worker comes up returns the run RUNNING with
\* started_at set, its metadata recorded and its consumer task created, and
\* the "complete" event of that run leaves it SUCCEEDED with a summary and
\* finished_at.  (Fails: the call of the worker client does not bind, so
\* start_run ends in FAILED whatever the worker would have done.)
C7_StartRunThenComplete ==
    [][\A r \in RunIds :
          /\ (startPc[r] = "created" /\ startPc'[r] = "done" /\ worker'[r] = "ok")
                => /\ startRet'[r] = "run"
                   /\ db'[r].status = RUNNING
                   /\ db'[r].started_at
                   /\ r \in Range(run_metadata')
                   /\ r \in active_streams'
                   /\ taskPc'[r] = "ready"
          /\ (taskPc[r] = "committing" /\ taskEvent[r] = "complete"
                 /\ taskPc'[r] \in {"cleanup", "waiting"})
                => /\ db'[r].status = SUCCEEDED
                   /\ db'[r].summary # ""
                   /\ db'[r].finished_at]_vars

C9_UnconfiguredProject ==
    [][\A r \in RunIds :
          (startPc[r] = "idle" /\ startPc'[r] # "idle" /\ command'[r] \notin projects)
              => startRet'[r] = "ValueError" /\ db'[r].status = NoRow]_vars

\* C10: when the shutdown hook has returned, every run that was RUNNING with
\* a metadata entry when it began is CANCELLED with the shutdown summary, and
\* _run_metadata is empty.  (Fails: the consumer tasks keep running during
\* the hook, and a run one of them completes before the hook reads it keeps
\* the status the event gave it.)
C10_ShutdownCancelsRunning ==
    shutdownPc = "done"
        => /\ run_metadata = <<>>
           /\ \A r \in shutdownRunning :
                 db[r].status = CANCELLED /\ db[r].summary = "Server shutdown"

\* C11: the shutdown hook leaves no worker of a tracked run alive: when it
\* has dealt with a metadata entry, the worker instance of that run is
\* terminated.  (Fails: the hook terminates what it finds under "cli_process",
\* a key no metadata entry has, so it terminates nothing.)
C11_ShutdownKillsWorkers ==
    [][(shutdownPc = "visiting" /\ shutdownTodo # <<>>
          /\ shutdownTodo' = Tail(shutdownTodo))
          => instance'[Head(shutdownTodo)] # "alive"]_vars

FinalEvents == {"plan_complete", "complete", "error"}

Last(events) == events[Len(events)]

Occurrences(events, kinds) ==
    Cardinality({i \in 1..Len(events) : events[i] \in kinds})

\* A plan as the claim describes it: longer than the threshold, with a
\* section header and three numbered steps, and no still-working marker.
WellFormedPlan(text) ==
    /\ text.len > 500
    /\ Contains(text, "## ")
    /\ {"1.", "2.", "3."} \subseteq text.has
    /\ \A pattern \in still_working_patterns : ~Contains(text, pattern)

\* C14: when the first idle timeout fetches a well-formed plan, that step
\* yields plan_complete, the only one of the stream, and from then on the
\* generator yields nothing and can only end.
C14_PlanCompleteAtFirstTimeout ==
    [][/\ (timeout_count = 0 /\ timeout_count' = 1
             /\ WellFormedPlan(plan_summary'))
            => /\ yielded' = Append(yielded, "plan_complete")
               /\ Occurrences(yielded', {"plan_complete"}) = 1
               /\ genPc' = "plan_yielded"
       /\ (genPc = "plan_yielded" /\ timeout_count = 1)
            => (yielded' = yielded /\ genPc' \in {"plan_yielded", "done", "raised"})
      ]_vars

\* Two lines came, the output stalled, the first timeout found a well-formed
\* plan, and the stream has ended with plan_complete as its third event.
C14_Witness ==
    /\ genPc = "done"
    /\ timeout_count = 1
    /\ WellFormedPlan(plan_summary)
    /\ Len(yielded) = 3
    /\ Last(yielded) = "plan_complete"
    /\ proc.state = "killed"

\* C15: a timeout that fetches output with a still-working marker yields
\* nothing and reads on while the timeouts are under MAX_TIMEOUT_RETRIES, and
\* yields plan_complete when they reach it; the timeouts never go past it.
C15_ForcedAfterRetries ==
    [][(timeout_count' = timeout_count + 1
          /\ \E pattern \in still_working_patterns :
                Contains(plan_summary', pattern))
         => /\ timeout_count' <= MAX_TIMEOUT_RETRIES
            /\ IF timeout_count' < MAX_TIMEOUT_RETRIES
               THEN yielded' = yielded /\ genPc' = "reading"
               ELSE /\ yielded' = Append(yielded, "plan_complete")
                    /\ genPc' = "plan_yielded"]_vars

\* The worker was still reading a file at the second timeout, plan_complete
\* was forced, and the stream has ended.
C15_Witness ==
    /\ genPc = "done"
    /\ timeout_count = MAX_TIMEOUT_RETRIES
    /\ Contains(plan_summary, "Reading file")
    /\ Last(yielded) = "plan_complete"
    /\ Occurrences(yielded, FinalEvents) = 1

\* C16: an event of the kinds plan_complete, complete and error is the last
\* event of its stream, so a stream has at most one; once it is yielded the
\* generator reads no more, and when the generator has returned after
\* plan_complete the follow process is not running.
C16_FinalEventIsLast ==
    /\ \A i \in 1..Len(yielded) :
          yielded[i] \in FinalEvents => i = Len(yielded)
    /\ (yielded # <<>> /\ Last(yielded) \in FinalEvents)
          => genPc \in {"plan_yielded", "done", "raised"}
    /\ (genPc = "done" /\ Last(yielded) = "plan_complete")
          => proc.state \in {"killed", "exited"}

\* A completion header came as a line event, then plan_complete ended the
\* stream and the process was killed.
C16_Witness ==
    /\ genPc = "done"
    /\ proc.state = "killed"
    /\ Len(yielded) = 2
    /\ yielded[1] = "task_response"
    /\ yielded[2] = "plan_complete"

\* C17: when readline meets the end of the output of a process that exited,
\* the generator yields one more event after the line events, complete for
\* exit code 0 and error for any other, and returns.
C17_ExitYieldsFinalEvent ==
    [][(genPc = "reading" /\ genPc' = "done")
         => /\ proc.state = "exited"
            /\ Occurrences(yielded, FinalEvents) = 0
            /\ yielded' = Append(yielded, IF proc.returncode = 0
                                          THEN "complete" ELSE "error")]_vars

\* The process failed after two lines and the stream ended with error.
C17_Witness ==
    /\ genPc = "done"
    /\ proc = [state |-> "exited", returncode |-> 1]
    /\ Len(yielded) = 3
    /\ Last(yielded) = "error"

C19_RespondForwardsWhenRunning ==
    [][\A r \in RunIds :
         (reply'[r] # reply[r] /\ reply'[r] \notin ApproveAnswers)
            => /\ (reply'[r] \in Forwarded
                     <=> (db[r].status = RUNNING /\ r \in Range(run_metadata)
                            /\ reply'[r] # "400 Invalid action"))
               /\ (reply'[r] \notin Forwarded
                     => db' = db /\ run_metadata' = run_metadata)]_vars

\* C20: an approve request for a run that is RUNNING and has a metadata
\* entry sends the approval command, after which the instance is
\* autonomous, and is answered with the approval; any other approve request
\* changes nothing.  (Fails: RunOrchestratorService has no approve_run, so
\* every approve request ends in the error answer.)
C20_ApprovePlanForwards ==
    [][\A r \in RunIds :
         (reply'[r] # reply[r] /\ reply'[r] \in ApproveAnswers)
            => IF db[r].status = RUNNING /\ r \in Range(run_metadata)
               THEN /\ \E message \in Messages :
                         lastCmd'[r] = approve_plan_cmd(Address(r), message)
                    /\ autonomous'[r]
                    /\ reply'[r] = "Plan approved - Executing..."
               ELSE /\ reply'[r] # "Plan approved - Executing..."
                    /\ db' = db /\ run_metadata' = run_metadata
                    /\ lastCmd' = lastCmd]_vars

\* C21: when the handler of a stream error returns, the run is FAILED if it
\* was active, the consumer task has stopped, and cleanup_instance has been
\* called for the instance of the run.  (Fails: the handler marks the run and
\* returns; it calls neither cleanup_instance nor anything that does.)
C21_StreamErrorCleansUp ==
    [][\A r \in RunIds :
          (taskPc[r] \in {"failing", "fail_commit"} /\ taskPc'[r] = "finished")
              => /\ is_active(db[r].status) => db'[r].status = FAILED
                 /\ ~TaskLive(taskPc'[r])
                 /\ instance'[r] = "killed"]_vars

\* C22: with errors in the processing of events, once the stream of a
\* worker process that exited has ended and the consumer task has returned,
\* the run is in a terminal status.  (Fails: the task does go on to the
\* later events, but when the event that failed is the final one there is no
\* later event, nothing marks the run, and it stays RUNNING.)
C22_TerminalDespiteEventError ==
    \A r \in RunIds :
        (stream[r] = "ended" /\ taskPc[r] = "finished")
            => is_completed(db[r].status)

\* C27: the slug of a name is the same on every call, is not empty, is made
\* of small letters, digits and hyphens only, and has no hyphen at its
\* ends and no two hyphens in a row.
C27_SlugWellFormed ==
    slug # <<>>
        => /\ slug = slugify(name)
           /\ \A i \in 1..Len(slug) : slug[i] \in LowerLetters \cup Digits \cup {"-"}
           /\ slug[1] # "-" /\ slug[Len(slug)] # "-"
           /\ \A i \in 1..(Len(slug) - 1) : ~(slug[i] = "-" /\ slug[i + 1] = "-")

\* The slug "b-7" of the name "b_-7": two separators in a row became one hyphen.
C27_Witness ==
    /\ name = <<"b", "_", "-", "7">>
    /\ slug = <<"b", "-", "7">>

\* The reference result: small letters, every longest run of characters
\* that are not letters or digits replaced by one hyphen, hyphens trimmed at
\* both ends, and the placeholder if nothing is left.
slug_reference(text) ==
    LET lowered == lower(text)
        hyphened == [i \in 1..Len(lowered) |->
                        IF lowered[i] \in LowerLetters \cup Digits
                        THEN lowered[i] ELSE "-"]
        stripped == strip(collapse(hyphened), "-")
    IN  IF stripped = <<>>
        THEN <<"w", "o", "r", "k", "s", "p", "a", "c", "e">>
        ELSE stripped

\* C28: the slug of a name is the reference result.  (Fails: a character
\* that is not a letter, a digit, a space, an underscore or a hyphen is
\* removed, not replaced, so the letters around it are joined.)
C28_SlugIsReference ==
    slug # <<>> => slug = slug_reference(name)


\* A get_workspace call that is between its test of the path and its end.
Working(c) == wsPc[c] \in {"pull", "clone", "clone_init", "clone_fetch"}

\* C23: whenever get_workspace returns a path, that path is a valid
\* workspace: it exists and holds .git, whatever was there before the call.
C23_ReturnedPathIsValid ==
    [][\A c \in Callers :
          (wsPc[c] # "returned" /\ wsPc'[c] = "returned")
              => is_valid_workspace(disk'[wsDir[c]])]_vars

\* C24: when the path exists but is no valid workspace, get_workspace
\* removes it before it clones and never pulls into it; when the removal
\* fails it raises, the path is as it was and no clone is started.
C24_InvalidIsRemovedFirst ==
    [][\A c \in Callers :
          (/\ wsPc[c] = "idle"
           /\ wsPc'[c] # "idle"
           /\ disk[wsDir'[c]] \in {"file", "plain"})
              => \/ /\ wsPc'[c] = "clone"
                    /\ disk'[wsDir'[c]] = "absent"
                 \/ /\ wsPc'[c] = "raised"
                    /\ disk' = disk]_vars

\* A removal failed and the call raised with the directory still there;
\* another removal went through and its clone was made.
C24_Witness ==
    \E c, d \in Callers :
        /\ wsLog[c] = "Failed to clean up"
        /\ wsPc[c] = "raised"
        /\ disk[wsDir[c]] = "plain"
        /\ wsDir[d] # wsDir[c]
        /\ wsPc[d] = "returned"
        /\ disk[wsDir[d]] = "checkout"

C26_CallsSerialized ==
    \A c, d \in Callers :
        (c # d /\ Working(c) /\ Working(d)) => wsDir[c] # wsDir[d]

\* The directories a sweep has to remove: those whose name is not the slug
\* of an active project name.
Orphans == {workspace_name \in Dirs :
              /\ isdir(disk[workspace_name])
              /\ \A project \in active : workspace_name # slugify(project)}

C40_SlugIdempotent ==
    slug # <<>> =>
        /\ slugify(slug) = slug
        /\ active_slugs({slug}) = active_slugs({name})

\* A name that _slugify changes in case, in a separator and in a run of
\* hyphens.
C40_Witness ==
    /\ name = <<"A", "-", "_", " ", "7">>
    /\ slug = <<"a", "-", "7">>

\* C36: every run in a terminal status has finished_at set, whichever path
\* made it terminal.
C36_TerminalHasFinishedAt ==
    \A r \in RunIds :
        (db[r].status # NoRow /\ is_completed(db[r].status))
            => db[r].finished_at

\* C37: cancel_run returns True exactly when that call moved the run to
\* CANCELLED: it returns neither False after cancelling the run nor True
\* with the run left as it was.
C37_CancelReturnsWhatItDid ==
    [][\A r \in RunIds :
          /\ (cancelPc[r] = "decided" /\ cancelPc'[r] = "idle")
                 => ((cancelRet'[r] = "True")
                        <=> (db'[r] # db[r] /\ db'[r].status = CANCELLED))
          /\ (cancelPc[r] = "idle" /\ cancels'[r] # cancels[r]
                  /\ cancelRet'[r] = "False")
                 => db'[r] = db[r]]_vars

\* The steps of start_run in their order: the second word of each command.
StepOrder == <<"auth", "instance", "task">>

C39_FailedStartKillsInstance ==
    (cli.pc = "raised" /\ cli.address # "none") => cli.proc # "alive"

\* The lines read that are not blank.
NonBlank == SelectSeq(lines_read, LAMBDA line : line.len > 0)

\* The approval patterns in any case, as they occur in lines.
ApprovalSpellings == {"Approve?", "APPROVE?"}

\* The classification of a line as stated: approval first, then the
\* completion header, then `default`, but for a progress header.
Classified(line, default) ==
    IF line.has \cap ApprovalSpellings # {} THEN "approval_required"
    ELSE IF "### Task completed" \in line.has THEN "task_response"
    ELSE IF "### Progress" \in line.has THEN "progress"
    ELSE default

\* C33 as amended: every line that is not blank yields one event and a blank
\* line none; a line with an approval pattern in any case is
\* approval_required whatever else it holds, otherwise a line with
\* "### Task completed" is task_response and one with "### Progress" is
\* progress, and a line matching no pattern is "step".
C33_LinesClassified ==
    /\ Len(yielded) = Len(NonBlank)
    /\ \A i \in 1..Len(NonBlank) : yielded[i] = Classified(NonBlank[i], "step")

\* A blank line was skipped, and a line with an approval pattern in capitals
\* beside the completion header asked for approval.
C33_Witness ==
    /\ lines_read = <<[len |-> 0, has |-> {}],
                      [len |-> 1, has |-> {"APPROVE?", "### Task completed"}]>>
    /\ yielded = <<"approval_required">>

\* C33 as stated: the same, with "progress" for a line matching no pattern.
C33_DefaultIsProgress ==
    /\ Len(yielded) = Len(NonBlank)
    /\ \A i \in 1..Len(NonBlank) :
          yielded[i] = Classified(NonBlank[i], "progress")

\* The four signals of a plan in a text.
Signals(text) ==
    {signal \in {"header", "intro", "list", "keyword"} :
        CASE signal = "header" -> {"## ", "### "} \cap text.has # {}
          [] signal = "intro" ->
                 {"Here's", "This approach", "My plan"} \cap text.has # {}
          [] signal = "list" ->
                 Cardinality({"1.", "2.", "3."} \cap text.has) >= 2
          [] signal = "keyword" ->
                 {"### Progress", "Steps:", "I'll proceed", "I will"}
                     \cap text.has # {}}

StillWorking ==
    {"Checkpoint created", "API request", "↑", "↓", "←", "→", "Reading file",
     "Searching", "Analyzing"}

\* C32: at an idle timeout before the retries are used up the full output
\* is taken for a complete plan exactly when it has at least 500
\* characters, none of the still-working markers and two of the four
\* signals, whatever the number of lines read.
C32_TwoOfFourSignals ==
    [][(timeout_count = 0 /\ timeout_count' = 1) =>
          ((yielded' = Append(yielded, "plan_complete"))
              <=> (/\ plan_summary'.len >= 500
                   /\ plan_summary'.has \cap StillWorking = {}
                   /\ Cardinality(Signals(plan_summary')) >= 2))]_vars

\* After two lines a text of 500 characters with a progress header, which
\* is a section header and a plan keyword, was taken for a complete plan.
C32_Witness ==
    /\ line_count = 2
    /\ timeout_count = 1
    /\ plan_summary = [len |-> 500, has |-> {"## ", "### ", "### Progress"}]
    /\ Len(yielded) = 3
    /\ yielded[3] = "plan_complete"

\* C38: the count of idle timeouts of a stream only grows and output does
\* not reset it: the timeout that brings it to MAX_TIMEOUT_RETRIES yields
\* plan_complete whatever was read before, so a stream has no more idle
\* timeouts than that.
C38_TimeoutsNeverReset ==
    [][/\ timeout_count' >= timeout_count
       /\ timeout_count' <= MAX_TIMEOUT_RETRIES
       /\ line_count' # line_count => timeout_count' = timeout_count
       /\ (timeout_count' = MAX_TIMEOUT_RETRIES /\ timeout_count' # timeout_count)
             => yielded' = Append(yielded, "plan_complete")]_vars

\* Lines were read, the second timeout found no plan, and plan_complete was
\* forced after the events of the lines.
C38_Witness ==
    /\ line_count = MaxLines
    /\ timeout_count = MAX_TIMEOUT_RETRIES
    /\ ~is_complete_plan(plan_summary)
    /\ Len(yielded) = MaxLines + 1
    /\ Last(yielded) = "plan_complete"

\* The kinds of events that end a run.
TerminalKinds == {"complete", "error", "failed", "cancelled"}

C34_ApprovedRunIsConsumed ==
    [][LET r == StreamRun IN
       (/\ reply'[r] # reply[r]
        /\ reply'[r] \in ApproveAnswers
        /\ applied # <<>>
        /\ Last(applied) = "plan_complete"
        /\ genPc = "done"
        /\ db[r].status = RUNNING)
          => TaskLive(taskPc'[r])]_vars
====
